---- MODULE Spec2Model ----
(***************************************************************************)
(* Ticket lifecycle of the youthalive backend: the Jotform webhook handler *)
(* (event.controller webhookHandler), the check-in handlers                *)
(* (checkin.controller checkIn, lookupTicket) and the part of the webhook  *)
(* normalizer (jotform.service parseWebhook / parseFormFields) that yields *)
(* the three required fields; searchGuests; and, under ParserSpec, the     *)
(* normalizer and the product parser as pure functions.                    *)
(*                                                                         *)
(* Every handler is an async function; it is cut at its awaits.  One       *)
(* action is one store (or collaborator) operation together with the       *)
(* synchronous code that runs from its completion up to the next await.    *)
(*                                                                         *)
(* Strings that the code takes apart (invoice numbers) are sequences of    *)
(* one-character strings; strings that are only compared (email, formId)   *)
(* are TLA+ strings, "" being the empty (falsy) string.                    *)
(* A document _id is the number of the request whose `new Model()`         *)
(* generated it (ObjectIds are unique per construction); 0 is null.        *)
(***************************************************************************)
EXTENDS Integers, Sequences, FiniteSets, TLC

\* ------------------------------------------------------------------ bounds
NumWebhooks == 2      \* webhook deliveries in one behaviour
NumCheckIns == 2      \* checkIn calls in one behaviour
NumLookups  == 1      \* lookupTicket calls in one behaviour
NumSearches == 1      \* searchGuests calls in one behaviour
MaxRequests == 3      \* requests of all kinds in one behaviour

Deliveries == 1..NumWebhooks
Calls      == 1..NumCheckIns

\* ------------------------------------------------------------------ strings
StartsWith(s, p) == Len(s) >= Len(p) /\ SubSeq(s, 1, Len(p)) = p
Substring(s, n)  == SubSeq(s, n + 1, Len(s))

HashInvPrefix == <<"#", " ", "I", "N", "V", "-">>
HashPrefix    == <<"#", " ">>
InvPrefix     == <<"I", "N", "V", "-">>

\* parseFormFields, "Clean invoice number": three independent ifs in sequence
CleanInvoice(raw) ==
    LET a == IF StartsWith(raw, HashInvPrefix) THEN Substring(raw, 6) ELSE raw
        b == IF StartsWith(a, HashPrefix) THEN Substring(a, 2) ELSE a
        c == IF StartsWith(b, InvPrefix) THEN Substring(b, 4) ELSE b
    IN  c

\* ------------------------------------------------------------------ mappings
\* A payload or a field mapping is a function from its keys to their values.
\* Reading a key the mapping does not have yields undefined, which every use
\* below treats like the empty string (both are falsy).
Has(fields, k)   == k \in DOMAIN fields
Str(fields, k)   == IF Has(fields, k) THEN fields[k] ELSE ""
Chars(fields, k) == IF Has(fields, k) THEN fields[k] ELSE <<>>

\* fields.a || fields.b || ... || '' over keys whose values are compared only
RECURSIVE FirstStr(_, _)
FirstStr(fields, keys) ==
    IF keys = <<>> THEN ""
    ELSE IF Str(fields, Head(keys)) # "" THEN Str(fields, Head(keys))
    ELSE FirstStr(fields, Tail(keys))

\* the same over keys whose values are taken apart
RECURSIVE FirstChars(_, _)
FirstChars(fields, keys) ==
    IF keys = <<>> THEN <<>>
    ELSE IF Chars(fields, Head(keys)) # <<>> THEN Chars(fields, Head(keys))
    ELSE FirstChars(fields, Tail(keys))

FormIdKeys  == <<"formID", "form_id", "formId">>
EmailKeys   == <<"q4_email4", "q5_email", "q4_email", "email">>
InvoiceKeys == <<"q38_invoiceId", "38", "q11_invoiceId", "q7_invoiceId",
                 "q11_autoincrement", "invoiceId">>

\* ------------------------------------------------------------------ numbers
Digit == <<"0", "1", "2", "3", "4", "5", "6", "7", "8", "9">>
Digits == {Digit[i] : i \in 1..10}
DigitValue(c) == (CHOOSE i \in 1..10 : Digit[i] = c) - 1

\* String(n) of an integer, as in a template literal
RECURSIVE DecimalOf(_)
DecimalOf(n) ==
    IF n < 0 THEN <<"-">> \o DecimalOf(-n)
    ELSE IF n < 10 THEN <<Digit[n + 1]>>
    ELSE DecimalOf(n \div 10) \o <<Digit[(n % 10) + 1]>>

RECURSIVE DigitsValue(_)
DigitsValue(ds) ==
    IF ds = <<>> THEN 0
    ELSE 10 * DigitsValue(SubSeq(ds, 1, Len(ds) - 1)) + DigitValue(ds[Len(ds)])

\* the length of the longest run of characters of `class` that starts at
\* position i of text
RECURSIVE RunLen(_, _, _)
RunLen(text, i, class) ==
    IF i <= Len(text) /\ text[i] \in class
    THEN 1 + RunLen(text, i + 1, class)
    ELSE 0

\* A JavaScript number is [nan, v]; an amount v counts hundredths, a
\* quantity v counts units.
Num(v) == [nan |-> FALSE, v |-> v]
NaN    == [nan |-> TRUE, v |-> 0]

\* x || d for a number x: NaN and 0 are falsy
OrElse(x, d) == IF x.nan \/ x.v = 0 THEN d ELSE x.v

\* amount * quantity
Times(a, q) == IF a.nan THEN NaN ELSE Num(a.v * q)

\* the pieces of a decimal literal at the start of s: sign, integer digits,
\* fraction digits, and the number of characters they take
Literal(s) ==
    LET lead   == RunLen(s, 1, {" "})
        t      == SubSeq(s, lead + 1, Len(s))
        signed == t # <<>> /\ t[1] \in {"-", "+"}
        body   == IF signed THEN Tail(t) ELSE t
        n      == RunLen(body, 1, Digits)
        dot    == n + 1 <= Len(body) /\ body[n + 1] = "."
        m      == IF dot THEN RunLen(body, n + 2, Digits) ELSE 0
    IN  [ sign   |-> IF signed /\ t[1] = "-" THEN -1 ELSE 1,
          int    |-> SubSeq(body, 1, n),
          frac   |-> SubSeq(body, n + 2, n + 1 + m),
          dot    |-> dot,
          rest   |-> Len(body) - n - (IF dot THEN 1 + m ELSE 0) ]

\* parseInt(s, 10): the longest signed digit prefix, NaN when there is none
ParseInt(s) ==
    LET l == Literal(s)
    IN  IF l.int = <<>> THEN NaN ELSE Num(l.sign * DigitsValue(l.int))

\* the first two fraction digits as hundredths (inputs carry at most two)
Hundredths(frac) ==
    LET padded == frac \o <<"0", "0">>
    IN  10 * DigitValue(padded[1]) + DigitValue(padded[2])

\* parseFloat(s): the longest decimal prefix, NaN when it has no digit
ParseFloat(s) ==
    LET l == Literal(s)
    IN  IF l.int = <<>> /\ l.frac = <<>> THEN NaN
        ELSE Num(l.sign * (100 * DigitsValue(l.int) + Hundredths(l.frac)))

\* Number(s), the coercion applied by `*`: the whole string must be a
\* decimal literal
ToNumber(s) ==
    IF Literal(s).rest = 0 THEN ParseFloat(s) ELSE NaN

\* ------------------------------------------------------------------ JSON
\* A JSON text is modelled by what JSON.parse makes of it:
\* [ok |-> FALSE] is a text on which JSON.parse throws, and
\* [ok |-> TRUE, data |-> v] is the text of the value v.
BadJson     == [ok |-> FALSE, data |-> <<>>]
JsonOf(v)   == [ok |-> TRUE, data |-> v]

\* a JSON scalar: absent, a number or a string
JAbsent     == [t |-> "absent", n |-> 0, s |-> <<>>]
JNum(n)     == [t |-> "num", n |-> n, s |-> <<>>]
JStr(s)     == [t |-> "str", n |-> 0, s |-> s]
Truthy(v)   == (v.t = "num" /\ v.n # 0) \/ (v.t = "str" /\ v.s # <<>>)
AsString(v) == IF v.t = "num" THEN DecimalOf(v.n) ELSE v.s
AsNumber(v) == IF v.t = "num" THEN Num(v.n) ELSE ToNumber(v.s)

\* ------------------------------------------------------------------ parsers
\* parseFormFields restricted to formId, email, name and invoiceNo.  The
\* name is read from the generic key `name` only.  dateNow is the value
\* Date.now() returns.
ParseFormFields(fields, dateNow) ==
    LET given     == FirstChars(fields, InvoiceKeys)
        invoiceNo == IF given # <<>> THEN given
                     ELSE InvPrefix \o DecimalOf(dateNow)
    IN  [ formId    |-> FirstStr(fields, FormIdKeys),
          email     |-> FirstStr(fields, EmailKeys),
          name      |-> Chars(fields, "name"),
          invoiceNo |-> CleanInvoice(invoiceNo) ]

\* parseWebhook: with a rawRequest that parses, the embedded mapping is
\* copied key by key over {formID, formId} set from the outer payload;
\* without one, or when JSON.parse throws, the payload itself is parsed
ParseWebhook(payload, dateNow) ==
    LET formId == FirstStr(payload, FormIdKeys)
    IN  IF Has(payload, "rawRequest") /\ payload["rawRequest"].ok
        THEN ParseFormFields(payload["rawRequest"].data
                               @@ ("formID" :> formId @@ "formId" :> formId),
                             dateNow)
        ELSE ParseFormFields(payload, dateNow)

\* /<label>\s*(<class>+)/ tried at position i of text
MatchAt(text, label, class, i) ==
    LET j == i + Len(label)
        k == j + RunLen(text, j, {" "})
        n == RunLen(text, k, class)
    IN  IF j - 1 <= Len(text) /\ SubSeq(text, i, j - 1) = label /\ n > 0
        THEN [found |-> TRUE, group |-> SubSeq(text, k, k + n - 1)]
        ELSE [found |-> FALSE, group |-> <<>>]

\* String.prototype.match with such a pattern: the leftmost match
Match(text, label, class) ==
    LET hits == {i \in 1..Len(text) : MatchAt(text, label, class, i).found}
    IN  IF hits = {} THEN [found |-> FALSE, group |-> <<>>]
        ELSE MatchAt(text, label, class,
                     CHOOSE i \in hits : \A h \in hits : i <= h)

QuantityLabel == <<"Q", "u", "a", "n", "t", "i", "t", "y", ":">>
AmountLabel   == <<"A", "m", "o", "u", "n", "t", ":">>

Defaults == [quantity |-> 1, productDetails |-> <<>>, totalAmount |-> Num(0)]

\* the paymentArray block: its own try/catch keeps the current values when
\* JSON.parse throws
FromPaymentArray(cur, text) ==
    IF ~text.ok THEN cur
    ELSE LET paymentData   == text.data
             productString == IF paymentData.product.items = <<>> THEN <<>>
                              ELSE paymentData.product.items[1]
             quantityMatch == Match(productString, QuantityLabel, Digits)
         IN  [ quantity |->
                 IF paymentData.product.isArray /\ quantityMatch.found
                 THEN OrElse(ParseInt(quantityMatch.group), 1)
                 ELSE cur.quantity,
               productDetails |->
                 IF paymentData.product.isArray THEN productString
                 ELSE cur.productDetails,
               totalAmount |->
                 IF paymentData.total # <<>>
                 THEN Num(OrElse(ParseFloat(paymentData.total), 0))
                 ELSE cur.totalAmount ]

\* the productField['1'] block: JSON.parse is inside the outer try only, so
\* when it throws the values assigned so far are returned
FromDirect(cur, text) ==
    IF ~text.ok THEN cur
    ELSE LET productData == text.data
             quantity    == IF Truthy(productData.quantity)
                            THEN OrElse(ParseInt(AsString(productData.quantity)), 1)
                            ELSE cur.quantity
         IN  [ quantity |-> quantity,
               productDetails |->
                 IF productData.name # <<>>
                 THEN productData.name
                        \o <<" ", "(", "Q", "u", "a", "n", "t", "i", "t", "y", ":", " ">>
                        \o DecimalOf(quantity) \o <<")">>
                 ELSE cur.productDetails,
               totalAmount |->
                 IF Truthy(productData.price)
                 THEN Times(AsNumber(productData.price), quantity)
                 ELSE cur.totalAmount ]

\* the string branch
FromString(text) ==
    LET quantityMatch == Match(text, QuantityLabel, Digits)
        quantity      == IF quantityMatch.found
                         THEN OrElse(ParseInt(quantityMatch.group), 1)
                         ELSE 1
        amountMatch   == Match(text, AmountLabel, Digits \cup {"."})
    IN  [ quantity |-> quantity,
          productDetails |-> text,
          totalAmount |->
            IF amountMatch.found
            THEN Times(Num(OrElse(ParseFloat(amountMatch.group), 0)), quantity)
            ELSE Num(0) ]

\* parseProductDetails.  productField is [kind, fields, text]: an object
\* with the mapping `fields`, the string `text`, or anything else.
ParseProductDetails(productField) ==
    IF productField.kind = "object"
    THEN LET f   == productField.fields
             one == IF Has(f, "paymentArray")
                    THEN FromPaymentArray(Defaults, f["paymentArray"])
                    ELSE Defaults
         IN  IF Has(f, "1") THEN FromDirect(one, f["1"]) ELSE one
    ELSE IF productField.kind = "string"
    THEN FromString(productField.text)
    ELSE Defaults

\* the payloads the model delivers
FormIds     == {"", "f1", "f2"}
Emails      == {"", "a@x"}
RawInvoices == { <<"I", "N", "V", "-">>,
                 <<"#", " ", "I", "N", "V", "-", "1">>,
                 <<"I", "N", "V", "-", "1">>,
                 <<"2">> }
Names       == { <<"J", "o">>, <<"a", "l">> }
Payloads == [formID : FormIds, email : Emails, name : Names, invoiceId : RawInvoices]

InvoiceNos == {CleanInvoice(r) : r \in RawInvoices}

\* ------------------------------------------------------------------ state
VARIABLES
    events,      \* Event collection:  _id -> [formId]
    users,       \* User collection:   _id -> [email]
    tickets,     \* Ticket collection: _id -> [invoiceNo, user, event, name,
                 \*                            email, checkedIn, checkInTime]
    emailCalls,  \* invocations of emailService.sendTicketEmail
    now,         \* the clock read by new Date()
    wh,          \* webhookHandler invocations
    ci,          \* checkIn invocations
    lookups,     \* responses of lookupTicket, in order
    searches,    \* responses of searchGuests, in order
    job          \* the parser call examined under ParserSpec

vars == <<events, users, tickets, emailCalls, now, wh, ci, lookups, searches, job>>

Null == 0

NoSubmission == [formId |-> "", email |-> "", name |-> <<>>, invoiceNo |-> <<>>]

NoJob == [fn |-> "none"]

IdleWebhook ==
    [ pc |-> "idle", sub |-> NoSubmission, event |-> Null, user |-> Null,
      status |-> 0, ticketId |-> Null, why |-> "", after |-> {} ]

IdleCheckIn ==
    [ pc |-> "idle", ticketId |-> Null, wellFormed |-> TRUE, invoiceNo |-> <<>>,
      eventId |-> Null, doc |-> Null, time |-> 0,
      status |-> 0, kind |-> "", shown |-> 0 ]

Init ==
    /\ events = <<>>
    /\ users = <<>>
    /\ tickets = <<>>
    /\ emailCalls = {}
    /\ now = 1
    /\ wh = [w \in Deliveries |-> IdleWebhook]
    /\ ci = [k \in Calls |-> IdleCheckIn]
    /\ lookups = <<>>
    /\ searches = <<>>
    /\ job = NoJob

\* the requests received so far
Received ==
    Cardinality({w \in DOMAIN wh : wh[w].pc # "idle"})
    + Cardinality({k \in DOMAIN ci : ci[k].pc # "idle"})
    + Len(lookups)
    + Len(searches)

\* ------------------------------------------------------------------ store
\* Model.findOne({formId}) / ({email}) / ({invoiceNo}): a matching _id or null
FindEvent(formId) ==
    IF \E e \in DOMAIN events : events[e].formId = formId
    THEN CHOOSE e \in DOMAIN events : events[e].formId = formId
    ELSE Null

FindUser(email) ==
    IF \E u \in DOMAIN users : users[u].email = email
    THEN CHOOSE u \in DOMAIN users : users[u].email = email
    ELSE Null

\* variant: the lookup never matches (queries a field no ticket carries)
FindTicketByInvoiceNever(invoiceNo) == Null

FindTicketByInvoice(invoiceNo) ==
    IF \E t \in DOMAIN tickets : tickets[t].invoiceNo = invoiceNo
    THEN CHOOSE t \in DOMAIN tickets : tickets[t].invoiceNo = invoiceNo
    ELSE Null

\* the unique indexes of the three collections: an insert is accepted only
\* when no stored document carries the same key
EventInsertAccepted(formId)    == \A e \in DOMAIN events : events[e].formId # formId
UserInsertAccepted(email)      == \A u \in DOMAIN users : users[u].email # email
TicketInsertAccepted(invoiceNo) ==
    \A t \in DOMAIN tickets : tickets[t].invoiceNo # invoiceNo

\* ------------------------------------------------------------------ webhookHandler
\* variant: the invoiceNo test is left out of the validation
MissingEmailOrFormId(sub) ==
    sub.email = "" \/ sub.formId = ""

\* "Validate required fields": !email || !formId || !invoiceNo
MissingRequired(sub) ==
    sub.email = "" \/ sub.formId = "" \/ sub.invoiceNo = <<>>

\* res.status(...).json(...): the handler ends; its locals are dropped
Respond(w, status, ticketId, why) ==
    wh' = [wh EXCEPT ![w].pc = "done", ![w].status = status,
                     ![w].ticketId = ticketId, ![w].why = why,
                     ![w].event = Null, ![w].user = Null]

\* the catch block: 500, success:false
Fail(w, why) == Respond(w, 500, Null, why)

\* request arrives: parseWebhook, validation, Event.findOne is issued.
\* Deliveries are numbered in order of arrival.
WebhookReceive(w, payload) ==
    /\ wh[w].pc = "idle"
    /\ Received < MaxRequests
    /\ \A d \in Deliveries : d < w => wh[d].pc # "idle"
    /\ LET sub == ParseWebhook(payload, now)
           done == {d \in Deliveries : wh[d].pc = "done"}
       IN  IF MissingRequired(sub)
           THEN wh' = [wh EXCEPT ![w].pc = "done", ![w].sub = sub,
                                 ![w].status = 400, ![w].why = "invalid",
                                 ![w].after = done]
           ELSE wh' = [wh EXCEPT ![w].pc = "findEvent", ![w].sub = sub,
                                 ![w].after = done]
    /\ UNCHANGED <<events, users, tickets, emailCalls, now, ci, lookups, searches, job>>

\* Event.findOne resolves; if null a new Event (fresh _id) is built and
\* event.save() is issued, else User.findOne is issued
WebhookFindEvent(w) ==
    /\ wh[w].pc = "findEvent"
    /\ LET e == FindEvent(wh[w].sub.formId)
       IN  IF e = Null
           THEN wh' = [wh EXCEPT ![w].pc = "saveEvent", ![w].event = w]
           ELSE wh' = [wh EXCEPT ![w].pc = "findUser", ![w].event = e]
    /\ UNCHANGED <<events, users, tickets, emailCalls, now, ci, lookups, searches, job>>

\* event.save() resolves or rejects (duplicate formId)
WebhookSaveEvent(w) ==
    /\ wh[w].pc = "saveEvent"
    /\ IF EventInsertAccepted(wh[w].sub.formId)
       THEN /\ events' = events @@ (w :> [formId |-> wh[w].sub.formId])
            /\ wh' = [wh EXCEPT ![w].pc = "findUser"]
       ELSE /\ Fail(w, "dupEvent")
            /\ UNCHANGED events
    /\ UNCHANGED <<users, tickets, emailCalls, now, ci, lookups, searches, job>>

\* User.findOne resolves; if null the password is hashed, a new User is
\* built and user.save() is issued, else Ticket.findOne is issued
WebhookFindUser(w) ==
    /\ wh[w].pc = "findUser"
    /\ LET u == FindUser(wh[w].sub.email)
       IN  IF u = Null
           THEN wh' = [wh EXCEPT ![w].pc = "saveUser", ![w].user = w]
           ELSE wh' = [wh EXCEPT ![w].pc = "findTicket", ![w].user = u]
    /\ UNCHANGED <<events, users, tickets, emailCalls, now, ci, lookups, searches, job>>

\* variant: the new User is never written to the store
WebhookSaveUserSkipped(w) ==
    /\ wh[w].pc = "saveUser"
    /\ wh' = [wh EXCEPT ![w].pc = "findTicket"]
    /\ UNCHANGED <<events, users, tickets, emailCalls, now, ci, lookups, searches, job>>

\* user.save() resolves or rejects (duplicate email)
WebhookSaveUser(w) ==
    /\ wh[w].pc = "saveUser"
    /\ IF UserInsertAccepted(wh[w].sub.email)
       THEN /\ users' = users @@ (w :> [email |-> wh[w].sub.email])
            /\ wh' = [wh EXCEPT ![w].pc = "findTicket"]
       ELSE /\ Fail(w, "dupUser")
            /\ UNCHANGED users
    /\ UNCHANGED <<events, tickets, emailCalls, now, ci, lookups, searches, job>>

\* new Ticket({...}): checkedIn and checkInTime take the schema defaults
NewTicket(w) ==
    [ invoiceNo   |-> wh[w].sub.invoiceNo,
      user        |-> wh[w].user,
      event       |-> wh[w].event,
      name        |-> wh[w].sub.name,
      email       |-> wh[w].sub.email,
      checkedIn   |-> FALSE,
      checkInTime |-> Null ]

\* variant: QR and email are produced for an existing ticket too
WebhookFindTicketResend(w) ==
    /\ wh[w].pc = "findTicket"
    /\ LET t == FindTicketByInvoice(wh[w].sub.invoiceNo)
       IN  IF t = Null
           THEN wh' = [wh EXCEPT ![w].pc = "saveTicket"]
           ELSE wh' = [wh EXCEPT ![w].pc = "qr", ![w].ticketId = t]
    /\ UNCHANGED <<events, users, tickets, emailCalls, now, ci, lookups, searches, job>>

\* variant: an existing ticket is overwritten with the submission's fields
WebhookFindTicketOverwrite(w) ==
    /\ wh[w].pc = "findTicket"
    /\ LET t == FindTicketByInvoice(wh[w].sub.invoiceNo)
       IN  IF t = Null
           THEN wh' = [wh EXCEPT ![w].pc = "saveTicket"] /\ UNCHANGED tickets
           ELSE /\ tickets' = [tickets EXCEPT ![t] = NewTicket(w)]
                /\ Respond(w, 200, t, "existing")
    /\ UNCHANGED <<events, users, emailCalls, now, ci, lookups, searches, job>>

\* Ticket.findOne resolves: an existing ticket is answered with 200 at once;
\* otherwise a new Ticket is built and ticket.save() is issued
WebhookFindTicket(w) ==
    /\ wh[w].pc = "findTicket"
    /\ LET t == FindTicketByInvoice(wh[w].sub.invoiceNo)
       IN  IF t = Null
           THEN wh' = [wh EXCEPT ![w].pc = "saveTicket"]
           ELSE Respond(w, 200, t, "existing")
    /\ UNCHANGED <<events, users, tickets, emailCalls, now, ci, lookups, searches, job>>

\* ticket.save() resolves or rejects (duplicate invoiceNo); on success
\* generateQrCode is called
WebhookSaveTicket(w) ==
    /\ wh[w].pc = "saveTicket"
    /\ IF TicketInsertAccepted(wh[w].sub.invoiceNo)
       THEN /\ tickets' = tickets @@ (w :> NewTicket(w))
            /\ wh' = [wh EXCEPT ![w].pc = "qr", ![w].ticketId = w]
       ELSE /\ Fail(w, "dupTicket")
            /\ UNCHANGED tickets
    /\ UNCHANGED <<events, users, emailCalls, now, ci, lookups, searches, job>>

\* what a collaborator call (generateQrCode, sendTicketEmail) can do: the
\* promise resolves (TRUE) or rejects (FALSE)
CollaboratorOutcomes == BOOLEAN

\* generateQrCode resolves, and sendTicketEmail is called, or it rejects
WebhookGenerateQr(w) ==
    /\ wh[w].pc = "qr"
    /\ \E ok \in CollaboratorOutcomes :
         IF ok THEN wh' = [wh EXCEPT ![w].pc = "email"]
               ELSE Fail(w, "qrFail")
    /\ UNCHANGED <<events, users, tickets, emailCalls, now, ci, lookups, searches, job>>

\* variant: a rejected sendTicketEmail is swallowed and 200 is answered
WebhookSendEmailSwallow(w) ==
    /\ wh[w].pc = "email"
    /\ \E ok \in CollaboratorOutcomes :
         /\ emailCalls' = emailCalls \cup
                {[by |-> w, invoiceNo |-> wh[w].sub.invoiceNo,
                  to |-> wh[w].sub.email, ok |-> ok]}
         /\ Respond(w, 200, wh[w].ticketId, IF ok THEN "created" ELSE "emailFail")
    /\ UNCHANGED <<events, users, tickets, now, ci, lookups, searches, job>>

\* sendTicketEmail was invoked; it resolves (200) or rejects (catch, 500)
WebhookSendEmail(w) ==
    /\ wh[w].pc = "email"
    /\ \E ok \in CollaboratorOutcomes :
         /\ emailCalls' = emailCalls \cup
                {[by |-> w, invoiceNo |-> wh[w].sub.invoiceNo,
                  to |-> wh[w].sub.email, ok |-> ok]}
         /\ IF ok THEN Respond(w, 200, wh[w].ticketId, "created")
                  ELSE Fail(w, "emailFail")
    /\ UNCHANGED <<events, users, tickets, now, ci, lookups, searches, job>>

Webhook ==
    \E w \in Deliveries :
        \/ \E p \in Payloads : WebhookReceive(w, p)
        \/ WebhookFindEvent(w)
        \/ WebhookSaveEvent(w)
        \/ WebhookFindUser(w)
        \/ WebhookSaveUser(w)
        \/ WebhookFindTicket(w)
        \/ WebhookSaveTicket(w)
        \/ WebhookGenerateQr(w)
        \/ WebhookSendEmail(w)

\* ------------------------------------------------------------------ checkIn
\* variant: the supplied eventId is not added to the query
MatchesAnyEvent(t, ticketId, invoiceNo, eventId) ==
    IF ticketId # Null THEN t = ticketId ELSE tickets[t].invoiceNo = invoiceNo

\* the query of checkIn / lookupTicket: {_id} or {invoiceNo}, plus {event}
\* when an eventId is supplied
Matches(t, ticketId, invoiceNo, eventId) ==
    /\ IF ticketId # Null THEN t = ticketId ELSE tickets[t].invoiceNo = invoiceNo
    /\ eventId # Null => tickets[t].event = eventId

\* Ticket.findOne(query): a matching _id or null
FindTicket(ticketId, invoiceNo, eventId) ==
    IF \E t \in DOMAIN tickets : Matches(t, ticketId, invoiceNo, eventId)
    THEN CHOOSE t \in DOMAIN tickets : Matches(t, ticketId, invoiceNo, eventId)
    ELSE Null

\* req.body of POST /api/checkin/scan.  wellFormed is
\* Types.ObjectId.isValid(ticketId); event ids are well-formed ObjectIds.
CheckInRequests ==
    [ticketId : Deliveries, wellFormed : {TRUE}, invoiceNo : {<<>>},
     eventId : {Null} \cup Deliveries]
    \cup [ticketId : {1}, wellFormed : {FALSE}, invoiceNo : {<<>>}, eventId : {Null}]
    \cup [ticketId : {Null}, wellFormed : {TRUE}, invoiceNo : InvoiceNos \ {<<>>},
          eventId : {Null} \cup Deliveries]
    \cup [ticketId : {Null}, wellFormed : {TRUE}, invoiceNo : {<<>>}, eventId : {Null}]

\* res.status(...).json(...) of checkIn; doc is the ticket the call loaded
Answer(k, status, kind, doc, shown) ==
    ci' = [ci EXCEPT ![k].pc = "done", ![k].status = status, ![k].kind = kind,
                     ![k].doc = doc, ![k].shown = shown]

\* request arrives: identifier validation, then Ticket.findOne is issued.
\* Calls are numbered in order of arrival.
CheckInRequest(k, req) ==
    /\ ci[k].pc = "idle"
    /\ Received < MaxRequests
    /\ \A j \in Calls : j < k => ci[j].pc # "idle"
    /\ LET c == [ci[k] EXCEPT !.ticketId = req.ticketId,
                              !.wellFormed = req.wellFormed,
                              !.invoiceNo = req.invoiceNo,
                              !.eventId = req.eventId]
       IN  IF req.ticketId = Null /\ req.invoiceNo = <<>>
           THEN ci' = [ci EXCEPT ![k] = [c EXCEPT !.pc = "done", !.status = 400,
                                                  !.kind = "IdRequired"]]
           ELSE IF req.ticketId # Null /\ ~req.wellFormed
           THEN ci' = [ci EXCEPT ![k] = [c EXCEPT !.pc = "done", !.status = 400,
                                                  !.kind = "InvalidId"]]
           ELSE ci' = [ci EXCEPT ![k] = [c EXCEPT !.pc = "find"]]
    /\ UNCHANGED <<events, users, tickets, emailCalls, now, wh, lookups, searches, job>>

\* Ticket.findOne resolves: 404, or 400 already checked in, or the loaded
\* document is marked (checkedIn = true, checkInTime = new Date()) and
\* ticket.save() is issued.  The clock may have advanced since it was last read.
CheckInFind(k) ==
    /\ ci[k].pc = "find"
    /\ LET t == FindTicket(ci[k].ticketId, ci[k].invoiceNo, ci[k].eventId)
       IN  IF t = Null
           THEN Answer(k, 404, "NotFound", Null, Null) /\ UNCHANGED now
           ELSE IF tickets[t].checkedIn
           THEN Answer(k, 400, "AlreadyCheckedIn", t, tickets[t].checkInTime)
                /\ UNCHANGED now
           ELSE \E d \in {0, 1} :
                  /\ now' = now + d
                  /\ ci' = [ci EXCEPT ![k].pc = "save", ![k].doc = t,
                                      ![k].time = now + d]
    /\ UNCHANGED <<events, users, tickets, emailCalls, wh, lookups, searches, job>>

\* ticket.save() resolves: the modified paths are written, 200 is answered
CheckInSave(k) ==
    /\ ci[k].pc = "save"
    /\ tickets' = [tickets EXCEPT ![ci[k].doc].checkedIn = TRUE,
                                  ![ci[k].doc].checkInTime = ci[k].time]
    /\ Answer(k, 200, "Success", ci[k].doc, ci[k].time)
    /\ UNCHANGED <<events, users, emailCalls, now, wh, lookups, searches, job>>

CheckIn ==
    \E k \in Calls :
        \/ \E r \in CheckInRequests : CheckInRequest(k, r)
        \/ CheckInFind(k)
        \/ CheckInSave(k)

\* ------------------------------------------------------------------ lookupTicket
\* POST /api/checkin/lookup: validation, Ticket.findOne, the response
LookupTicket(invoiceNo, eventId) ==
    /\ Len(lookups) < NumLookups
    /\ Received < MaxRequests
    /\ LET t == FindTicket(Null, invoiceNo, eventId)
       IN  lookups' = Append(lookups,
             IF invoiceNo = <<>> THEN [status |-> 400, id |-> Null, checkedIn |-> FALSE]
             ELSE IF t = Null THEN [status |-> 404, id |-> Null, checkedIn |-> FALSE]
             ELSE [status |-> 200, id |-> t, checkedIn |-> tickets[t].checkedIn])
    /\ UNCHANGED <<events, users, tickets, emailCalls, now, wh, ci, searches, job>>

Lookup ==
    \E n \in InvoiceNos, e \in {Null} \cup Deliveries : LookupTicket(n, e)

\* ------------------------------------------------------------------ searchGuests
\* the characters of the model's strings, in code-unit order
Alphabet == <<".", "1", "2", "@", "J", "a", "j", "l", "o", "x">>

CodeOf(c) == CHOOSE i \in 1..Len(Alphabet) : Alphabet[i] = c

\* case folding of the 'i' flag
LowerOf(c) == IF c = "J" THEN "j" ELSE c

\* the characters of an email value
CharsOf(email) ==
    IF email = "a@x" THEN <<"a", "@", "x">> ELSE <<>>

\* new RegExp(String(query), 'i').test(text) for a query made of literal
\* characters and the metacharacter "." (any character)
RegexMatchesAt(q, text, i) ==
    \A j \in 1..Len(q) :
        q[j] = "." \/ LowerOf(text[i + j]) = LowerOf(q[j])

RegexTest(q, text) ==
    \E i \in 0..(Len(text) - Len(q)) : RegexMatchesAt(q, text, i)

\* searchCriteria: {event: eventId} plus, when a query is given,
\* $or: [{name: regex}, {email: regex}]
SearchMatches(t, eventId, query) ==
    /\ tickets[t].event = eventId
    /\ query # <<>> =>
         \/ RegexTest(query, tickets[t].name)
         \/ RegexTest(query, CharsOf(tickets[t].email))

\* string comparison of sort({name: 1}): by code units, a prefix first
NameLess(a, b) ==
    \E i \in 1..(Len(b)) :
        /\ \A j \in 1..(i - 1) : j <= Len(a) /\ a[j] = b[j]
        /\ i > Len(a) \/ (i <= Len(a) /\ CodeOf(a[i]) < CodeOf(b[i]))

\* the orders sort({name: 1}) can give the documents S: ascending by name,
\* equal names in any order
SortedByName(S) ==
    {r \in [1..Cardinality(S) -> S] :
        /\ \A i, j \in 1..Cardinality(S) : i # j => r[i] # r[j]
        /\ \A i, j \in 1..Cardinality(S) :
               i < j => ~NameLess(tickets[r[j]].name, tickets[r[i]].name)}

\* .limit(50)
SearchLimit == 50

Limit(r) == SubSeq(r, 1, IF Len(r) < SearchLimit THEN Len(r) ELSE SearchLimit)

\* GET /api/checkin/search: validation, Ticket.find(...).sort(...).limit(50),
\* the response (data holds the tickets' ids in result order)
SearchGuests(eventId, query) ==
    /\ Len(searches) < NumSearches
    /\ Received < MaxRequests
    /\ IF eventId = Null
       THEN searches' = Append(searches,
                [status |-> 400, eventId |-> eventId, query |-> query, data |-> <<>>])
       ELSE \E r \in SortedByName({t \in DOMAIN tickets :
                                      SearchMatches(t, eventId, query)}) :
              searches' = Append(searches,
                [status |-> 200, eventId |-> eventId, query |-> query,
                 data |-> Limit(r)])
    /\ UNCHANGED <<events, users, tickets, emailCalls, now, wh, ci, lookups, job>>

SearchQueries == { <<>>, <<"j">>, <<"j", ".">> }

Search ==
    \E e \in {Null} \cup Deliveries, q \in SearchQueries : SearchGuests(e, q)

Next == Webhook \/ CheckIn \/ Lookup \/ Search

Spec == Init /\ [][Next]_vars

\* ------------------------------------------------------------------ parsers as functions
\* Under ParserSpec one call of parseWebhook or of parseProductDetails is
\* examined: ParserInit draws the call and its argument, the action applies
\* the function.  The collections stay as constructed.

\* invoice values as Jotform sends them
ParserInvoices == { <<"#", " ", "I", "N", "V", "-", "1", "2", "3">>,
                    <<"I", "N", "V", "-", "1", "2", "3">>,
                    <<"1", "2", "3">>,
                    <<"#", " ", "4">>,
                    <<"#", " ", "I", "N", "V", "-", "I", "N", "V", "-", "5">>,
                    <<"#", " ", "I", "N", "V", "-", "#", " ", "6">> }

\* the invoice part of a mapping: no alias key, or one of two alias keys
InvoiceParts(values) ==
    {<<>>} \cup {k :> v : k \in {"invoiceId", "q7_invoiceId"}, v \in values}

\* the form id part of a mapping: any subset of the three keys
FormIdParts(values) ==
    UNION {[S -> values] : S \in SUBSET {"formID", "form_id", "formId"}}

\* the values Date.now() returns
DateNows == {7, 42}

\* the embedded mappings and the rawRequest texts
RawData     == {f @@ i : f \in FormIdParts({"", "f3"}),
                         i \in InvoiceParts({<<"I", "N", "V", "-", "8">>})}
RawRequests == {BadJson} \cup {JsonOf(d) : d \in RawData}

FlatPayloads ==
    {("email" :> "a@x") @@ f @@ i :
        f \in [{"formID", "form_id"} -> {"", "f1"}],
        i \in InvoiceParts(ParserInvoices)}

NestedPayloads ==
    {("rawRequest" :> r) @@ p :
        r \in RawRequests,
        p \in {q \in FlatPayloads : ~Has(q, "q7_invoiceId")}}

WebhookJobs ==
    {[fn |-> "parseWebhook", input |-> p, dateNow |-> d,
      done |-> FALSE, out |-> NoSubmission] :
        p \in FlatPayloads \cup NestedPayloads, d \in DateNows}

\* product strings and the texts of paymentArray and of the "1" entry
GeneralAdmission ==
    <<"G", "A", " ", "(", "A", "m", "o", "u", "n", "t", ":", " ", "5", ".",
      "0", "0", " ", "A", "U", "D", ",", " ", "Q", "u", "a", "n", "t", "i",
      "t", "y", ":", " ", "1", "5", ")">>

ProductStrings ==
    { <<>>, GeneralAdmission,
      <<"Q", "u", "a", "n", "t", "i", "t", "y", ":", "0">>,
      <<"A", "m", "o", "u", "n", "t", ":", " ", ".">>,
      <<"G", "A">> }

PaymentArrays ==
    {BadJson} \cup
    {JsonOf([product |-> p, total |-> t]) :
        p \in { [isArray |-> FALSE, items |-> <<>>],
                [isArray |-> TRUE, items |-> <<>>],
                [isArray |-> TRUE, items |-> <<GeneralAdmission>>] },
        t \in { <<>>, <<"7", "5", ".", "0", "0">>, <<"a", "b", "c">> }}

DirectEntries ==
    {BadJson} \cup
    {JsonOf([quantity |-> q, name |-> n, price |-> c]) :
        q \in {JAbsent, JNum(0), JNum(2), JNum(-3), JStr(<<"4">>),
               JStr(<<"a", "b", "c">>)},
        n \in {<<>>, <<"G", "A">>},
        c \in {JAbsent, JNum(500), JNum(-500), JStr(<<"5", ".", "5">>),
               JStr(<<"a", "b", "c">>)}}

ProductObjects ==
    {a @@ b : a \in {<<>>} \cup {"paymentArray" :> t : t \in PaymentArrays},
              b \in {<<>>} \cup {"1" :> t : t \in DirectEntries}}

ProductFields ==
    {[kind |-> "object", fields |-> f, text |-> <<>>] : f \in ProductObjects}
    \cup {[kind |-> "string", fields |-> <<>>, text |-> t] : t \in ProductStrings}
    \cup {[kind |-> "other", fields |-> <<>>, text |-> <<>>]}

ProductJobs ==
    {[fn |-> "parseProductDetails", input |-> p, dateNow |-> 0,
      done |-> FALSE, out |-> Defaults] : p \in ProductFields}

ParserInit ==
    /\ events = <<>>
    /\ users = <<>>
    /\ tickets = <<>>
    /\ emailCalls = {}
    /\ now = 1
    /\ wh = [w \in Deliveries |-> IdleWebhook]
    /\ ci = [k \in Calls |-> IdleCheckIn]
    /\ lookups = <<>>
    /\ searches = <<>>
    /\ \/ job \in WebhookJobs
       \/ job \in ProductJobs

RunParseWebhook ==
    /\ job.fn = "parseWebhook"
    /\ ~job.done
    /\ job' = [job EXCEPT !.done = TRUE,
                          !.out = ParseWebhook(job.input, job.dateNow)]
    /\ UNCHANGED <<events, users, tickets, emailCalls, now, wh, ci, lookups, searches>>

RunParseProductDetails ==
    /\ job.fn = "parseProductDetails"
    /\ ~job.done
    /\ job' = [job EXCEPT !.done = TRUE,
                          !.out = ParseProductDetails(job.input)]
    /\ UNCHANGED <<events, users, tickets, emailCalls, now, wh, ci, lookups, searches>>

ParserNext == RunParseWebhook \/ RunParseProductDetails

ParserSpec == ParserInit /\ [][ParserNext]_vars

\* ------------------------------------------------------------------ properties
HasEmptyField(sub) == sub.email = "" \/ sub.formId = "" \/ sub.invoiceNo = <<>>

\* the deliveries received so far that passed validation
ValidDeliveries == {w \in Deliveries : wh[w].pc # "idle" /\ ~HasEmptyField(wh[w].sub)}

TicketsWith(n)   == {t \in DOMAIN tickets : tickets[t].invoiceNo = n}
EmailCallsFor(n) == {c \in emailCalls : c.invoiceNo = n}

\* C1: whatever the interleaving of deliveries, an invoiceNo never has more
\* than one Ticket nor more than one invocation of the email sender; and once
\* all deliveries received carry the same invoiceNo and have completed, that
\* invoiceNo has exactly one Ticket.
C1_OneTicketOneEmail ==
    \A n \in InvoiceNos \ {<<>>} :
        /\ Cardinality(TicketsWith(n)) <= 1
        /\ Cardinality(EmailCallsFor(n)) <= 1
        /\ ( /\ ValidDeliveries # {}
             /\ \A w \in ValidDeliveries :
                    wh[w].pc = "done" /\ wh[w].sub.invoiceNo = n )
           => Cardinality(TicketsWith(n)) = 1

\* two deliveries of one invoice raced: both looked the ticket up before
\* either saved, one insert was rejected, the other went on to the email
C1_Witness ==
    \E w1, w2 \in Deliveries :
        /\ wh[w1].pc = "done" /\ wh[w2].pc = "done"
        /\ wh[w1].sub.invoiceNo = wh[w2].sub.invoiceNo
        /\ wh[w1].why = "dupTicket"
        /\ wh[w2].why = "created"

\* the ticket each checkIn call loaded, by call
CallsOn(t) == {k \in Calls : ci[k].pc = "done" /\ ci[k].doc = t}

\* C2: of the checkIn calls that reached one ticket, exactly one returns
\* success and every other one returns AlreadyCheckedIn.
C2_ExactlyOneSuccess ==
    \A t \in DOMAIN tickets :
        CallsOn(t) # {} =>
            \E k \in CallsOn(t) :
                /\ ci[k].kind = "Success"
                /\ \A j \in CallsOn(t) \ {k} : ci[j].kind = "AlreadyCheckedIn"

\* d was received before w completed and had not completed when w was received
Overlaps(w, d) ==
    /\ d # w
    /\ wh[d].pc # "idle"
    /\ d \notin wh[w].after
    /\ w \notin wh[d].after

\* C3: a delivery that ran from receipt to answer with no other delivery in
\* progress, after an earlier delivery of the same invoiceNo had completed
\* with its ticket, leaves one Ticket and at most one email invocation for
\* that invoiceNo, and answers 200 with the earlier delivery's ticket.
C3_SequentialRepeat ==
    \A w1, w2 \in Deliveries :
        ( /\ wh[w2].pc = "done"
          /\ w1 \in wh[w2].after
          /\ \A d \in Deliveries : ~Overlaps(w2, d)
          /\ ~HasEmptyField(wh[w2].sub)
          /\ wh[w1].sub.invoiceNo = wh[w2].sub.invoiceNo
          /\ wh[w1].why \in {"created", "existing", "qrFail", "emailFail"} )
        => /\ Cardinality(TicketsWith(wh[w2].sub.invoiceNo)) = 1
           /\ Cardinality(EmailCallsFor(wh[w2].sub.invoiceNo)) <= 1
           /\ wh[w2].status = 200
           /\ wh[w2].why = "existing"
           /\ wh[w2].ticketId \in TicketsWith(wh[w2].sub.invoiceNo)
           /\ wh[w1].why = "existing" => wh[w2].ticketId = wh[w1].ticketId
           /\ wh[w1].why # "existing" => wh[w2].ticketId = w1

C3_Witness ==
    \E w1, w2 \in Deliveries :
        /\ wh[w2].pc = "done"
        /\ w1 \in wh[w2].after
        /\ wh[w1].sub.invoiceNo = wh[w2].sub.invoiceNo
        /\ wh[w1].why = "created"
        /\ wh[w2].why = "existing"

\* C4: a delivery whose Ticket insert was rejected as a duplicate completes
\* like a repeat delivery: 200 with the existing ticket.
C4_DuplicateIsExisting ==
    \A w \in Deliveries :
        (wh[w].pc = "done" /\ wh[w].why = "dupTicket")
        => /\ wh[w].status = 200
           /\ wh[w].ticketId \in TicketsWith(wh[w].sub.invoiceNo)

\* C5: no step takes a Ticket's checkedIn from true back to false (nor
\* removes the Ticket).
C5_CheckedInMonotonic ==
    [][ \A t \in DOMAIN tickets :
            tickets[t].checkedIn => (t \in DOMAIN tickets' /\ tickets'[t].checkedIn)
      ]_vars

\* a checked-in ticket met a later checkIn call, which left it checked in
C5_Witness ==
    \E k \in Calls :
        /\ ci[k].pc = "done"
        /\ ci[k].kind = "AlreadyCheckedIn"
        /\ tickets[ci[k].doc].checkedIn

\* C6: once a Ticket's checkInTime is set, no step changes it.
C6_CheckInTimeWrittenOnce ==
    [][ \A t \in DOMAIN tickets :
            tickets[t].checkInTime # Null =>
                tickets'[t].checkInTime = tickets[t].checkInTime
      ]_vars

\* the ticket a checkIn call identifies by ticketId or invoiceNo, whatever
\* its event
Identified(k) ==
    {t \in DOMAIN tickets :
        IF ci[k].ticketId # Null THEN t = ci[k].ticketId
        ELSE tickets[t].invoiceNo = ci[k].invoiceNo}

EventMismatch(k) ==
    /\ ci[k].eventId # Null
    /\ \E t \in Identified(k) : tickets[t].event # ci[k].eventId

\* C7: when the lookup of a checkIn call whose eventId differs from the event
\* of the ticket it identifies resolves, the call answers NotFound (404) and
\* the Ticket collection is left as it was.
C7_EventMismatchNotFound ==
    [][ \A k \in Calls :
            (ci[k].pc = "find" /\ ci'[k].pc # "find" /\ EventMismatch(k))
            => /\ ci'[k].pc = "done"
               /\ ci'[k].status = 404
               /\ ci'[k].kind = "NotFound"
               /\ tickets' = tickets
      ]_vars

\* a call scoped to another event was answered NotFound for a ticket that
\* had already been checked in
C7_Witness ==
    \E k \in Calls :
        /\ ci[k].pc = "done"
        /\ ci[k].kind = "NotFound"
        /\ EventMismatch(k)
        /\ \E t \in Identified(k) : tickets[t].checkedIn

\* C8: a delivery that failed in the QR generator or the email sender after
\* saving its Ticket leaves that Ticket stored and answers 500, while a
\* delivery that found its ticket existing answers 200.
C8_CollaboratorFailureKeepsTicket ==
    /\ \A w \in Deliveries :
        (wh[w].pc = "done" /\ wh[w].why \in {"qrFail", "emailFail"})
        => /\ w \in DOMAIN tickets
           /\ tickets[w].invoiceNo = wh[w].sub.invoiceNo
           /\ wh[w].status = 500
           /\ wh[w].ticketId = Null
    /\ \A v \in Deliveries :
        (wh[v].pc = "done" /\ wh[v].why = "existing") => wh[v].status = 200

\* the email failed on creation and a redelivery then found the ticket
C8_Witness ==
    \E w, v \in Deliveries :
        /\ wh[w].pc = "done" /\ wh[w].why = "emailFail"
        /\ wh[v].pc = "done" /\ wh[v].why = "existing" /\ wh[v].ticketId = w

\* C9: a delivery whose normalized submission has an empty email, formId or
\* invoiceNo is answered 400 on receipt, without any change to the Event,
\* User or Ticket collection or any email invocation, then or later.
C9_InvalidRejected ==
    /\ [][ \A w \in Deliveries :
            (wh[w].pc = "idle" /\ wh'[w].pc # "idle" /\ HasEmptyField(wh'[w].sub))
            => /\ wh'[w].pc = "done"
               /\ wh'[w].status = 400
               /\ UNCHANGED <<events, users, tickets, emailCalls>>
         ]_vars
    /\ [](\A w \in Deliveries :
            (wh[w].pc # "idle" /\ HasEmptyField(wh[w].sub))
            => /\ wh[w].pc = "done"
               /\ wh[w].status = 400
               /\ w \notin DOMAIN events \cup DOMAIN users \cup DOMAIN tickets
               /\ \A c \in emailCalls : c.by # w)

\* an invoice value that is only a prefix is normalized to the empty string
\* and rejected, although email and formId are present
C9_Witness ==
    \E w \in Deliveries :
        /\ wh[w].pc = "done"
        /\ wh[w].status = 400
        /\ wh[w].sub.invoiceNo = <<>>
        /\ wh[w].sub.email # ""
        /\ wh[w].sub.formId # ""

\* C10: every stored Ticket references a stored Event and a stored User, and
\* both were already stored in the state in which the Ticket was inserted.
C10_TicketReferences ==
    /\ [](\A t \in DOMAIN tickets :
            tickets[t].event \in DOMAIN events /\ tickets[t].user \in DOMAIN users)
    /\ [][ \A t \in DOMAIN tickets' \ DOMAIN tickets :
            tickets'[t].event \in DOMAIN events /\ tickets'[t].user \in DOMAIN users
         ]_vars

\* a ticket that references the Event and User another delivery created
C10_Witness ==
    \E t \in DOMAIN tickets :
        /\ tickets[t].event # t
        /\ tickets[t].user # t

\* C11: no step removes a stored Ticket, and a step changes a stored Ticket
\* only as the save of a successful checkIn of that ticket does (checkedIn
\* and checkInTime); a delivery that finds its invoiceNo's ticket, a lookup
\* and a search leave the Ticket collection as it was.
C11_TicketFrame ==
    [][ /\ \A t \in DOMAIN tickets :
              /\ t \in DOMAIN tickets'
              /\ tickets'[t] # tickets[t] =>
                   \E k \in Calls :
                       /\ ci[k].pc = "save" /\ ci[k].doc = t
                       /\ ci'[k].pc = "done" /\ ci'[k].kind = "Success"
                       /\ tickets'[t] = [tickets[t] EXCEPT
                                           !.checkedIn = TRUE,
                                           !.checkInTime = ci[k].time]
        /\ (lookups' # lookups \/ searches' # searches) => tickets' = tickets
        /\ \A w \in Deliveries :
              (wh[w].pc # "done" /\ wh'[w].why = "existing") => tickets' = tickets
      ]_vars

\* a delivery found the ticket of its invoiceNo although it carried another
\* name and another form
C11_Witness ==
    \E w \in Deliveries :
        /\ wh[w].pc = "done"
        /\ wh[w].why = "existing"
        /\ tickets[wh[w].ticketId].name # wh[w].sub.name
        /\ events[tickets[wh[w].ticketId].event].formId # wh[w].sub.formId

\* text contains q as a substring, letter case ignored
ContainsIgnoringCase(text, q) ==
    \E i \in 0..(Len(text) - Len(q)) :
        \A j \in 1..Len(q) :
            (IF text[i + j] = "J" THEN "j" ELSE text[i + j])
                = (IF q[j] = "J" THEN "j" ELSE q[j])

\* C17: a search answers only tickets of the event asked for whose name or
\* email contains the query as a case-insensitive substring, in ascending
\* name order, at most 50 of them.
C17_SearchResult ==
    \A n \in 1..Len(searches) :
        LET r == searches[n] IN
        /\ Len(r.data) <= 50
        /\ \A i \in 1..Len(r.data) :
              /\ r.data[i] \in DOMAIN tickets
              /\ tickets[r.data[i]].event = r.eventId
              /\ r.query # <<>> =>
                   \/ ContainsIgnoringCase(tickets[r.data[i]].name, r.query)
                   \/ ContainsIgnoringCase(CharsOf(tickets[r.data[i]].email), r.query)
        /\ \A i, j \in 1..Len(r.data) :
              i < j => ~NameLess(tickets[r.data[j]].name, tickets[r.data[i]].name)

\* C18: once the email send of the delivery that created a Ticket has
\* failed, the email sender is never invoked again for that invoiceNo, and
\* no delivery of that invoiceNo received afterwards is on the creation
\* path (ticket save, QR, email).
C18_NoEmailAfterFailure ==
    /\ [][ \A c \in emailCalls :
              ~c.ok => \A d \in emailCalls' : d.invoiceNo = c.invoiceNo => d = c
         ]_vars
    /\ [](\A c \in emailCalls :
            ~c.ok =>
              \A w \in Deliveries :
                  (c.by \in wh[w].after /\ wh[w].sub.invoiceNo = c.invoiceNo)
                  => wh[w].pc \notin {"saveTicket", "qr", "email"})

\* the email failed, and a later delivery of the invoice was answered with
\* the existing ticket without another email invocation
C18_Witness ==
    \E c \in emailCalls :
        /\ ~c.ok
        /\ Cardinality(EmailCallsFor(c.invoiceNo)) = 1
        /\ \E w \in Deliveries :
              /\ c.by \in wh[w].after
              /\ wh[w].sub.invoiceNo = c.invoiceNo
              /\ wh[w].pc = "done"
              /\ wh[w].status = 200

\* C19: two completed valid deliveries with different invoiceNo values and
\* the same email or the same formId both have their Ticket stored.
C19_RaceLoserHasTicket ==
    \A w1, w2 \in Deliveries :
        ( /\ w1 # w2
          /\ wh[w1].pc = "done" /\ wh[w2].pc = "done"
          /\ ~HasEmptyField(wh[w1].sub) /\ ~HasEmptyField(wh[w2].sub)
          /\ wh[w1].sub.invoiceNo # wh[w2].sub.invoiceNo
          /\ \/ wh[w1].sub.email = wh[w2].sub.email
             \/ wh[w1].sub.formId = wh[w2].sub.formId )
        => /\ TicketsWith(wh[w1].sub.invoiceNo) # {}
           /\ TicketsWith(wh[w2].sub.invoiceNo) # {}

\* ---------------------------------------------------------------- parser claims
Returned(fn) == job.fn = fn /\ job.done

\* nested mode: the payload has a rawRequest that JSON.parse accepts
NestedMode(payload) == Has(payload, "rawRequest") /\ payload["rawRequest"].ok

\* C12: in nested mode the returned formId is the first present of the
\* outer payload's formID, form_id, formId, whatever the embedded mapping
\* carries.
C12_OuterFormIdWins ==
    (/\ Returned("parseWebhook")
     /\ NestedMode(job.input)
     /\ \E k \in {"formID", "form_id", "formId"} : Str(job.input, k) # "")
    => job.out.formId = FirstStr(job.input, FormIdKeys)

\* the input with only the first matching prefix removed
StripOnePrefix(raw) ==
    IF StartsWith(raw, HashInvPrefix) THEN Substring(raw, 6)
    ELSE IF StartsWith(raw, HashPrefix) THEN Substring(raw, 2)
    ELSE IF StartsWith(raw, InvPrefix) THEN Substring(raw, 4)
    ELSE raw

\* C13: normalization removes at most one prefix: the returned invoiceNo is
\* the submitted invoice value with only the first matching of "# INV-",
\* "# ", "INV-" removed.
C13_AtMostOnePrefix ==
    (/\ Returned("parseWebhook")
     /\ ~Has(job.input, "rawRequest")
     /\ FirstChars(job.input, InvoiceKeys) # <<>>)
    => job.out.invoiceNo = StripOnePrefix(FirstChars(job.input, InvoiceKeys))

\* C14: with no invoice value under any alias key the returned invoiceNo is
\* "INV-" followed by the timestamp.
C14_PlaceholderKeepsPrefix ==
    (/\ Returned("parseWebhook")
     /\ ~Has(job.input, "rawRequest")
     /\ FirstChars(job.input, InvoiceKeys) = <<>>)
    => job.out.invoiceNo = InvPrefix \o DecimalOf(job.dateNow)

\* C15: for every product field the returned quantity is an integer >= 1
\* and the returned totalAmount is a number >= 0.
C15_QuantityAndTotalInRange ==
    Returned("parseProductDetails")
    => /\ job.out.quantity >= 1
       /\ ~job.out.totalAmount.nan
       /\ job.out.totalAmount.v >= 0

\* JSON.parse throws on the paymentArray or on the "1" entry
ParseException(productField) ==
    /\ productField.kind = "object"
    /\ \/ Has(productField.fields, "paymentArray")
            /\ ~productField.fields["paymentArray"].ok
       \/ Has(productField.fields, "1") /\ ~productField.fields["1"].ok

\* C16: whenever a parse exception occurs the product parser returns
\* exactly quantity 1, productDetails "" and totalAmount 0.
C16_ExceptionGivesDefaults ==
    (Returned("parseProductDetails") /\ ParseException(job.input))
    => job.out = [quantity |-> 1, productDetails |-> <<>>,
                  totalAmount |-> [nan |-> FALSE, v |-> 0]]

====
